---- MODULE Spec2Model ----
(***************************************************************************)
(* A model of pyStickerCreator.py: the CSV batch driver (run_csv), the     *)
(* string sanitizers, the column resolver (build_column_map) and the label *)
(* layout of generate_pdf with its shrink-to-fit loops and barcode fitter. *)
(*                                                                         *)
(* Text is a sequence of one-character strings, <<"0","4","5">> for "045". *)
(* Python's None is the one-element sequence NoneV, which no text equals.  *)
(* Python list indexes are 0-based and kept 0-based here: row[i] of the    *)
(* code is row[i + 1] of the TLA+ sequence.                                *)
(***************************************************************************)
EXTENDS Integers, Sequences, FiniteSets, TLC

VARIABLES
    pc,         \* position of the running function
    remaining,  \* run_csv: rows the reader has still to yield
    header,     \* run_csv: header (None until the header row is read)
    colmap,     \* run_csv: colmap
    rowsread,   \* the rows the reader has yielded so far
    fields,     \* run_csv: company_raw .. karton_raw of the current row
    k,          \* run_csv: the carton loop's next k
    k_total,    \* run_csv: k_total of the current row
    labels,     \* the calls of generate_pdf so far, in order
    files,      \* the output directory: file name -> page saved under it
    cur,        \* generate_pdf: the row being drawn, 1..7 (8: all drawn)
    row_top,    \* generate_pdf: row_top
    font_size,  \* generate_pdf: font_size / draw_row: font_size_val
    text_w,     \* glyph width of the text being fitted
    steps,      \* decrements of the current shrink loop
    last_text,  \* the value text drawn in the current row (NoText until drawn)
    rows_done,  \* the rows whose rectangles are drawn, in order
    fit,        \* the barcode fitter's values of this page
    s_in,       \* argument of strip_leading_zeros_keep_zero
    s_out       \* its return value (NoneV before the call)

vars == <<pc, remaining, header, colmap, rowsread, fields, k, k_total, labels,
          files, cur, row_top, font_size, text_w, steps, last_text, rows_done,
          fit, s_in, s_out>>

\* the variables of run_csv, of generate_pdf's page, and the rest of each
csvvars == <<remaining, header, colmap, rowsread, fields, k, k_total, labels, files>>
pdfvars == <<cur, row_top, font_size, text_w, steps, last_text, rows_done, fit>>
noncsv == <<pdfvars, s_in, s_out>>
nonpdf == <<csvvars, s_in, s_out>>

----------------------------------------------------------------------------
(* Characters and text                                                      *)

NoneV == <<"<None>">>

Digits == {"0", "1", "2", "3", "4", "5", "6", "7", "8", "9"}
Whitespace == {" ", "\t"}

IsDigit(c) == c \in Digits
IsSpace(c) == c \in Whitespace

RECURSIVE TextsUpTo(_, _)
\* every sequence over cs of length <= n
TextsUpTo(cs, n) ==
    IF n = 0 THEN {<<>>}
    ELSE LET shorter == TextsUpTo(cs, n - 1)
         IN  shorter \cup {<<c>> \o t : c \in cs, t \in {u \in shorter : Len(u) = n - 1}}

RECURSIVE LStripSet(_, _)
\* str.lstrip(chars): drop the leading characters that are in cs
LStripSet(s, cs) ==
    IF s # <<>> /\ Head(s) \in cs THEN LStripSet(Tail(s), cs) ELSE s

RECURSIVE RStripSet(_, _)
\* str.rstrip(chars)
RStripSet(s, cs) ==
    IF s # <<>> /\ s[Len(s)] \in cs
    THEN RStripSet(SubSeq(s, 1, Len(s) - 1), cs)
    ELSE s

\* str.strip(): surrounding whitespace removed
Strip(s) == RStripSet(LStripSet(s, Whitespace), Whitespace)

RECURSIVE ReSubNonDigit(_)
\* re.sub(r"\D", "", s): every non-digit character deleted, left to right
ReSubNonDigit(s) ==
    IF s = <<>> THEN <<>>
    ELSE IF IsDigit(Head(s)) THEN <<Head(s)>> \o ReSubNonDigit(Tail(s))
    ELSE ReSubNonDigit(Tail(s))

----------------------------------------------------------------------------
(* Sanitizers, src/pyStickerCreator.py 51-68                                *)

sanitize_numeric_keep_zeros(value, default) ==
    IF value = NoneV THEN default
    ELSE LET s == ReSubNonDigit(Strip(value))
         IN  IF s # <<>> THEN s ELSE default

sanitize_any(value, default) ==
    IF value = NoneV THEN default
    ELSE LET s == Strip(value)
         IN  IF s # <<>> THEN s ELSE default

\* a slip: the "keep zero" fallback of line 68 forgotten
strip_leading_zeros_drop_zero(s) ==
    LStripSet(sanitize_numeric_keep_zeros(s, <<"0">>), {"0"})

strip_leading_zeros_keep_zero(s) ==
    LET s1 == sanitize_numeric_keep_zeros(s, <<"0">>)
        s2 == LStripSet(s1, {"0"})
    IN  IF s2 # <<>> THEN s2 ELSE <<"0">>

----------------------------------------------------------------------------
(* Filename hygiene, src/pyStickerCreator.py 71-82                          *)

\* the character class [\/*?:"<>|] of line 73
UnsafeChars == {"/", "*", "?", ":", "\"", "<", ">", "|"}

RECURSIVE ReSubUnsafe(_)
\* re.sub(r'[\/*?:"<>|]', "_", s)
ReSubUnsafe(s) ==
    IF s = <<>> THEN <<>>
    ELSE <<IF Head(s) \in UnsafeChars THEN "_" ELSE Head(s)>> \o ReSubUnsafe(Tail(s))

RECURSIVE ReSubSpaces(_)
\* re.sub(r"\s+", " ", s): every maximal run of whitespace becomes one space
ReSubSpaces(s) ==
    IF s = <<>> THEN <<>>
    ELSE IF IsSpace(Head(s))
         THEN <<" ">> \o ReSubSpaces(LStripSet(s, Whitespace))
         ELSE <<Head(s)>> \o ReSubSpaces(Tail(s))

safe_filename_component(value, default) ==
    LET s0 == sanitize_any(value, default)
        s1 == IF s0 = NoneV \/ s0 = <<>> THEN default ELSE s0
    IN  Strip(ReSubSpaces(ReSubUnsafe(s1)))

truncate_component(value, max_len) ==
    IF value = NoneV THEN <<>>
    ELSE IF Len(value) <= max_len THEN value ELSE SubSeq(value, 1, max_len)

----------------------------------------------------------------------------
(* Header normalisation, src/pyStickerCreator.py 85-92                      *)
(* Non-ASCII characters are written by code point: "U+00FC" is u-umlaut,    *)
(* "U+00DC" is U-umlaut, "U+0308" the combining diaeresis.                  *)

UpperLetters ==
    <<"A", "B", "C", "D", "E", "F", "G", "H", "I", "J", "K", "L", "M",
      "N", "O", "P", "Q", "R", "S", "T", "U", "V", "W", "X", "Y", "Z">>
LowerLetters ==
    <<"a", "b", "c", "d", "e", "f", "g", "h", "i", "j", "k", "l", "m",
      "n", "o", "p", "q", "r", "s", "t", "u", "v", "w", "x", "y", "z">>

Range(f) == {f[i] : i \in DOMAIN f}

UpperSet == Range(UpperLetters)

LowerOfUpper ==
    [c \in UpperSet |-> LowerLetters[CHOOSE i \in DOMAIN UpperLetters : UpperLetters[i] = c]]

\* str.lower() of one character
Lower(c) ==
    IF c \in UpperSet THEN LowerOfUpper[c]
    ELSE IF c = "U+00DC" THEN "U+00FC"
    ELSE c

\* unicodedata.normalize("NFKD", c) of one character
NFKD(c) ==
    IF c = "U+00FC" THEN <<"u", "U+0308">>
    ELSE IF c = "U+00DC" THEN <<"U", "U+0308">>
    ELSE <<c>>

\* unicodedata.combining(c) != 0
IsCombining(c) == c = "U+0308"

RECURSIVE MapLower(_)
MapLower(s) == IF s = <<>> THEN <<>> ELSE <<Lower(Head(s))>> \o MapLower(Tail(s))

RECURSIVE MapNFKD(_)
MapNFKD(s) == IF s = <<>> THEN <<>> ELSE NFKD(Head(s)) \o MapNFKD(Tail(s))

NotCombining(c) == ~IsCombining(c)

normalize_for_match(s) ==
    IF s = NoneV THEN <<>>
    ELSE SelectSeq(MapNFKD(MapLower(Strip(s))), NotCombining)

----------------------------------------------------------------------------
(* re.search for the header patterns, src/pyStickerCreator.py 113, 118-123  *)
(* A pattern is literal parts joined by \s*, with an optional \b at either  *)
(* end. Positions count the characters to their left, 0..Len(h).            *)

Pat(lb, parts, rb) == [lb |-> lb, parts |-> parts, rb |-> rb]

WordChars ==
    Range(LowerLetters) \cup Range(UpperLetters) \cup Digits \cup {"_", "U+00FC", "U+00DC"}

\* \w
IsWordChar(c) == c \in WordChars

WordAt(h, i) == i >= 1 /\ i <= Len(h) /\ IsWordChar(h[i])

\* \b at position i
Boundary(h, i) == WordAt(h, i) # WordAt(h, i + 1)

LitAt(h, i, lit) ==
    /\ i + Len(lit) <= Len(h)
    /\ SubSeq(h, i + 1, i + Len(lit)) = lit

RECURSIVE MatchEnds(_, _, _)
\* the positions where a match of the parts that starts at i can end
MatchEnds(parts, h, i) ==
    IF ~LitAt(h, i, Head(parts)) THEN {}
    ELSE LET e == i + Len(Head(parts))
         IN  IF Len(parts) = 1 THEN {e}
             ELSE UNION {MatchEnds(Tail(parts), h, j) :
                           j \in {n \in e..Len(h) : \A m \in (e + 1)..n : IsSpace(h[m])}}

re_search(p, h) ==
    \E i \in 0..Len(h) :
        /\ p.lb => Boundary(h, i)
        /\ \E e \in MatchEnds(p.parts, h, i) : p.rb => Boundary(h, e)

CompanyPatterns ==
    <<Pat(TRUE, <<<<"c", "o", "m", "p", "a", "n", "y">>>>, TRUE),
      Pat(TRUE, <<<<"f", "i", "r", "m", "a">>>>, TRUE),
      Pat(TRUE, <<<<"u", "n", "t", "e", "r", "n", "e", "h", "m", "e", "n">>>>, TRUE)>>

ArticlePatterns ==
    <<Pat(FALSE, <<<<"a", "r", "t", "i", "k", "e", "l">>>>, FALSE),
      Pat(FALSE, <<<<"i", "t", "e", "m">>, <<"n", "o">>>>, FALSE),
      Pat(FALSE, <<<<"a", "r", "t", "i", "c", "l", "e">>, <<"n", "o">>>>, FALSE),
      Pat(TRUE, <<<<"s", "k", "u">>>>, TRUE),
      Pat(TRUE, <<<<"i", "t", "e", "m">>>>, TRUE),
      Pat(TRUE, <<<<"a", "r", "t", "i", "c", "l", "e">>>>, TRUE)>>

QuantityPatterns ==
    <<Pat(FALSE, <<<<"s", "t", "u", "c", "k", "z", "a", "h", "l">>>>, FALSE),
      Pat(FALSE, <<<<"s", "t", "u", "e", "c", "k", "z", "a", "h", "l">>>>, FALSE),
      Pat(FALSE, <<<<"q", "u", "a", "n", "t", "i", "t", "y">>>>, FALSE),
      Pat(FALSE, <<<<"q", "t", "y">>>>, FALSE),
      Pat(FALSE, <<<<"m", "e", "n", "g", "e">>>>, FALSE)>>

BatchPatterns ==
    <<Pat(FALSE, <<<<"c", "h", "a", "r", "g", "e", "n">>>>, FALSE),
      Pat(FALSE, <<<<"b", "a", "t", "c", "h">>>>, FALSE)>>

OrderPatterns ==
    <<Pat(FALSE, <<<<"b", "e", "s", "t", "e", "l", "l">>>>, FALSE),
      Pat(FALSE, <<<<"o", "r", "d", "e", "r">>>>, FALSE)>>

CartonPatterns ==
    <<Pat(FALSE, <<<<"k", "a", "r", "t", "o", "n">>>>, FALSE),
      Pat(FALSE, <<<<"c", "a", "r", "t", "o", "n">>>>, FALSE)>>

FieldNames == {"company", "article", "quantity", "batch", "order", "carton"}

FieldPatterns ==
    [company |-> CompanyPatterns, article |-> ArticlePatterns,
     quantity |-> QuantityPatterns, batch |-> BatchPatterns,
     order |-> OrderPatterns, carton |-> CartonPatterns]

----------------------------------------------------------------------------
(* Column resolver, src/pyStickerCreator.py 95-132                          *)
(* An index is None (<<>>) or <<i>> with i the 0-based column.              *)

NoIdx == <<>>

RECURSIVE MapNormalize(_)
\* line 108
MapNormalize(row) ==
    IF row = <<>> THEN <<>>
    ELSE <<normalize_for_match(Head(row))>> \o MapNormalize(Tail(row))

RECURSIVE find_idx_from(_, _, _)
\* lines 110-115 from cell i on: the first cell that any pattern matches
find_idx_from(patterns, normalized, i) ==
    IF i >= Len(normalized) THEN NoIdx
    ELSE IF \E n \in DOMAIN patterns : re_search(patterns[n], normalized[i + 1])
         THEN <<i>>
         ELSE find_idx_from(patterns, normalized, i + 1)

RECURSIVE find_idx_by_pattern(_, _)
\* a slip: the two loops of find_idx swapped (patterns outside, cells inside)
find_idx_by_pattern(patterns, normalized) ==
    IF patterns = <<>> THEN NoIdx
    ELSE LET hit == find_idx_from(<<Head(patterns)>>, normalized, 0)
         IN  IF hit # NoIdx THEN hit
             ELSE find_idx_by_pattern(Tail(patterns), normalized)

find_idx(patterns, normalized) == find_idx_from(patterns, normalized, 0)

build_column_map(header_row) ==
    LET normalized == MapNormalize(header_row)
    IN  [f \in FieldNames |-> find_idx(FieldPatterns[f], normalized)]

get_cell(row, idx, default) ==
    IF idx = NoIdx THEN default
    ELSE IF idx[1] < 0 \/ idx[1] >= Len(row) THEN default
    ELSE row[idx[1] + 1]

----------------------------------------------------------------------------
(* Number conversions used by run_csv, src/pyStickerCreator.py 391, 399     *)

DigitSeq == <<"0", "1", "2", "3", "4", "5", "6", "7", "8", "9">>

DigitValues == [c \in Digits |-> (CHOOSE i \in DOMAIN DigitSeq : DigitSeq[i] = c) - 1]

DigitValue(c) == DigitValues[c]

RECURSIVE IntOfFrom(_, _)
\* int(s) for a digit string, read left to right
IntOfFrom(s, acc) ==
    IF s = <<>> THEN acc ELSE IntOfFrom(Tail(s), acc * 10 + DigitValue(Head(s)))

IntOf(s) == IntOfFrom(s, 0)

RECURSIVE StrOf(_)
\* str(n) for n >= 0
StrOf(n) ==
    IF n < 10 THEN <<DigitSeq[n + 1]>>
    ELSE StrOf(n \div 10) \o <<DigitSeq[(n % 10) + 1]>>

----------------------------------------------------------------------------
(* generate_pdf, the text it derives: src/pyStickerCreator.py 137-164       *)

T_Order == <<" ", "-", " ", "O", "r", "d", "e", "r", " ">>
T_Batch == <<",", " ", "B", "a", "t", "c", "h", " ">>
T_Box == <<",", " ", "B", "o", "x", " ">>
T_Pdf == <<".", "p", "d", "f">>
T_COMPANY_NAME == <<"C", "O", "M", "P", "A", "N", "Y", "_", "N", "A", "M", "E">>
T_Company == <<"C", "o", "m", "p", "a", "n", "y">>
T_NoOrderNo == <<"N", "o", "O", "r", "d", "e", "r", "N", "o">>
T_BatchDefault == <<"B", "a", "t", "c", "h">>

MaxCompanyLen == 40
MaxOrderLen == 40
MaxBatchLen == 20

\* a slip: the payload built from the displayed (de-padded) quantity
qty_digits_stripped(qty_raw) == strip_leading_zeros_keep_zero(qty_raw)

\* line 145
qty_digits(qty_raw) == sanitize_numeric_keep_zeros(qty_raw, <<"0">>)

\* line 156
barcode_data(artikel_display, digits, batch_display, carton_no) ==
    artikel_display \o <<"|">> \o digits \o <<"|">> \o batch_display
        \o <<"|">> \o carton_no

\* a slip: the carton number left out of the file name
pdf_file_no_box(company, order_display, batch_display, carton_no) ==
    truncate_component(safe_filename_component(company, T_Company), MaxCompanyLen)
        \o T_Order
        \o truncate_component(safe_filename_component(order_display, T_NoOrderNo), MaxOrderLen)
        \o T_Batch
        \o truncate_component(safe_filename_component(batch_display, T_BatchDefault), MaxBatchLen)
        \o T_Pdf

\* lines 159-164
pdf_file(company, order_display, batch_display, carton_no) ==
    LET company_safe ==
            truncate_component(safe_filename_component(company, T_Company), MaxCompanyLen)
        order_safe ==
            truncate_component(safe_filename_component(order_display, T_NoOrderNo), MaxOrderLen)
        batch_safe ==
            truncate_component(safe_filename_component(batch_display, T_BatchDefault), MaxBatchLen)
    IN  company_safe \o T_Order \o order_safe \o T_Batch \o batch_safe
            \o T_Box \o carton_no \o T_Pdf

\* What one call of generate_pdf puts on the page and the file it saves it
\* under. The geometry of the page is the subject of SpecPdf below.
generate_pdf(company_raw, artikel_raw, qty_raw, batch_raw, order_raw, carton_no) ==
    LET company == sanitize_any(company_raw, T_COMPANY_NAME)
        artikel_display == sanitize_any(artikel_raw, <<>>)
        order_display == sanitize_any(order_raw, <<>>)
        digits == qty_digits(qty_raw)
        quantity_display == strip_leading_zeros_keep_zero(digits)
        batch_display == sanitize_any(batch_raw, <<"1">>)
        data == barcode_data(artikel_display, digits, batch_display, carton_no)
    IN  [company |-> company,                      \* header row, line 211
         artikel_display |-> artikel_display,      \* line 247
         quantity_display |-> quantity_display,    \* line 254
         encoded |-> data,                         \* value of the Code128, line 307
         caption |-> data,                         \* text under it, line 319
         batch_display |-> batch_display,          \* line 327
         order_display |-> order_display,          \* line 334
         box |-> carton_no,                        \* line 341
         pdf_file |-> pdf_file(company, order_display, batch_display, carton_no)]

----------------------------------------------------------------------------
(* Exact arithmetic for the page geometry. Lengths are integers in units    *)
(* of 1/127000 point, in which the A4 page, every constant of the layout    *)
(* and every text width is whole; the barcode fitter divides, and works on  *)
(* fractions <<numerator, denominator>> of a point. The code computes in    *)
(* floating point; the model computes exactly.                              *)

Unit == 127 * 1000
\* reportlab's mm = 72 / 25.4 points
Mm == 360 * 1000

Pt(x) == x * Unit

Abs(x) == IF x < 0 THEN -x ELSE x

RECURSIVE GCD(_, _)
GCD(a, b) == IF b = 0 THEN a ELSE GCD(b, a % b)

\* the fraction n/d in lowest terms, d > 0
Rat(n, d) == LET g == GCD(Abs(n), d) IN <<n \div g, d \div g>>

RMul(a, b) ==
    LET g1 == GCD(Abs(a[1]), b[2])
        g2 == GCD(Abs(b[1]), a[2])
    IN  Rat((a[1] \div g1) * (b[1] \div g2), (a[2] \div g2) * (b[2] \div g1))

\* a / b for b > 0
RDiv(a, b) == RMul(a, <<b[2], b[1]>>)

RAdd(a, b) ==
    LET g == GCD(a[2], b[2])
    IN  Rat(a[1] * (b[2] \div g) + b[1] * (a[2] \div g), (a[2] \div g) * b[2])

\* a > b for a >= 0, b > 0
RGt(a, b) == LET q == RDiv(a, b) IN q[1] > q[2]

RLt(a, b) == RGt(b, a)

RMax(a, b) == IF RGt(a, b) THEN a ELSE b

----------------------------------------------------------------------------
(* generate_pdf, the page: src/pyStickerCreator.py 166-345                  *)

\* A4, line 167
page_w == 210 * Mm
page_h == 297 * Mm

margin_x == 36
label_h_margin == 140

label_w == page_w - 2 * Pt(margin_x)
label_h == page_h - Pt(label_h_margin)
label_x == Pt(margin_x)
label_y == (page_h - label_h) \div 2

\* a slip: the header and the article row's heights exchanged
row_heights_exchanged == <<70, 90, 70, 150, 70, 70, 70>>

\* lines 183-191, in points
row_heights == <<90, 70, 70, 150, 70, 70, 70>>

RowNames == <<"Header", "Article", "Quantity", "Barcode", "OrderIndex", "OrderNo", "BoxNo">>

\* lines 194-195: label_w * 0.45; label_w is a multiple of 100 units
col1_w == (label_w \div 100) * 45
col2_w == label_w - col1_w

\* the shrinkable argument of the draw_row calls, lines 247-341
Shrinkable(row) == RowNames[row] \in {"Article", "OrderIndex", "OrderNo"}

\* pdfmetrics.stringWidth(text, font, size): the text's glyph widths, in
\* 1/1000 of the font size, times the size
stringWidth(glyphs, size) == glyphs * size * 127

max_font == 42
min_font == 12
header_pad == 24

\* line 206
available_w == label_w - Pt(header_pad)

\* line 207, the header's loop condition
header_loop_cond(glyphs, size) ==
    size > min_font /\ stringWidth(glyphs, size) > available_w

main_label_font_size == 36
min_font_val == 8
value_pad == 20

\* line 235
available_w_val == col2_w - Pt(value_pad)

\* a slip: the floor of line 236 forgotten
value_loop_cond_no_floor(glyphs, size) ==
    stringWidth(glyphs, size) > available_w_val

\* line 236, the value cell's loop condition
value_loop_cond(glyphs, size) ==
    stringWidth(glyphs, size) > available_w_val /\ size > min_font_val

----------------------------------------------------------------------------
(* The barcode fitter, src/pyStickerCreator.py 263-310, in points           *)

text_size == 12
text_pad_bottom == 16
top_pad == 16
barcode_side_pad == 60
bar_scale == 100

\* lines 266-272
size_height_target ==
    LET text_area_h == text_size + 6
        bottom_pad == text_area_h + text_pad_bottom
        target == row_heights[4] - top_pad - bottom_pad
    IN  <<IF target < 30 THEN 30 ELSE target, 1>>

\* line 274
size_width_target == Rat(label_w - Pt(barcode_side_pad), Unit)

\* lines 278-279: (1.2 / 100) * bar_scale and (40.0 / 100) * bar_scale
initial_bar_width == RMul(Rat(12, 1000), <<bar_scale, 1>>)
initial_bar_height == RMul(Rat(40, 100), <<bar_scale, 1>>)

\* the floor of lines 304-305
min_bar_width == Rat(2, 10)

\* The bars of a Code128 symbol: a start, the data symbols and a checksum
\* of 11 modules each, and a stop of 13.
Modules(symbols) == 11 * (symbols + 2) + 13

\* code128.Code128(...).width, lines 282 and 309: the modules at barWidth
\* each, between two quiet zones of max(0.25 inch, 10 barWidth)
Code128Width(modules, barWidth) ==
    RAdd(RMul(<<modules, 1>>, barWidth),
         RMul(<<2, 1>>, RMax(<<18, 1>>, RMul(<<10, 1>>, barWidth))))

\* code128.Code128(...).height, lines 283 and 310
Code128Height(barHeight) == barHeight

\* lines 286-289: <<final_width, final_height>> before the clamps
width_formula(size_width_init, size_height_init) ==
    LET size_diff_percent == RMul(RDiv(size_width_init, <<100, 1>>), size_width_target)
    IN  <<size_diff_percent, RMul(RDiv(size_height_init, <<100, 1>>), size_diff_percent)>>

\* lines 292-295
clamp_width(final) ==
    IF RGt(final[1], size_width_target)
    THEN LET scale_w == RDiv(size_width_target, final[1])
         IN  <<RMul(final[1], scale_w), RMul(final[2], scale_w)>>
    ELSE final

\* a slip: the height clamp of lines 297-300 forgotten
clamp_height_missing(final) == final

\* lines 297-300
clamp_height(final) ==
    IF RGt(final[2], size_height_target)
    THEN LET scale_h == RDiv(size_height_target, final[2])
         IN  <<RMul(final[1], scale_h), RMul(final[2], scale_h)>>
    ELSE final

\* line 303
bar_width_computed(final_width, size_width_init) ==
    RMul(initial_bar_width, RDiv(final_width, size_width_init))

\* lines 280-310 for a payload of the given number of modules
barcode_fit(modules) ==
    LET size_width_init == Code128Width(modules, initial_bar_width)
        size_height_init == Code128Height(initial_bar_height)
        final == clamp_height(clamp_width(width_formula(size_width_init, size_height_init)))
        computed == bar_width_computed(final[1], size_width_init)
        floored == RLt(computed, min_bar_width)
        bar_width_final == IF floored THEN min_bar_width ELSE computed
    IN  [size_width_init |-> size_width_init,
         size_height_init |-> size_height_init,
         final_width |-> final[1],
         final_height |-> final[2],
         floored |-> floored,
         bar_width_final |-> bar_width_final,
         barcode_w |-> Code128Width(modules, bar_width_final),
         barcode_h |-> Code128Height(final[2])]

NoFit == [size_width_init |-> <<0, 1>>, size_height_init |-> <<0, 1>>,
          final_width |-> <<0, 1>>, final_height |-> <<0, 1>>, floored |-> FALSE,
          bar_width_final |-> <<0, 1>>, barcode_w |-> <<0, 1>>, barcode_h |-> <<0, 1>>]

----------------------------------------------------------------------------
(* SpecPdf: one call of generate_pdf, row by row. The texts enter by their  *)
(* glyph widths and the payload by its number of Code128 symbols.           *)

TextWStep == 1500
MaxTextW == 30
MinSymbols == 6
SymbolStep == 8
MaxSymbolSteps == 26

\* the glyph widths a text can have, in 1/1000 of the font size
GlyphWidths == {TextWStep * j : j \in 0..MaxTextW}

\* the data symbols a payload can have; "|0|1|1" has six
SymbolCounts == {MinSymbols + SymbolStep * j : j \in 0..MaxSymbolSteps}

NoText == [row |-> 0, size |-> 0, glyphs |-> 0]

\* the variables of generate_pdf outside a call
PdfIdle ==
    /\ cur = 0
    /\ row_top = 0
    /\ font_size = 0
    /\ text_w = 0
    /\ steps = 0
    /\ last_text = NoText
    /\ rows_done = <<>>
    /\ fit = NoFit

Rect(x, y, w, h) == [x |-> x, y |-> y, w |-> w, h |-> h]

\* lines 200-206: the header's rectangle; the loop starts at max_font
DrawHeader ==
    /\ pc = "row"
    /\ cur = 1
    /\ rows_done' = Append(rows_done,
          [row |-> cur,
           rects |-> <<Rect(label_x, row_top - Pt(row_heights[1]), label_w, Pt(row_heights[1]))>>])
    /\ font_size' = max_font
    /\ text_w' \in GlyphWidths
    /\ steps' = 0
    /\ pc' = "shrink"
    /\ last_text' = NoText
    /\ UNCHANGED <<cur, row_top, fit, nonpdf>>

\* lines 207-208: one iteration of the header's loop
ShrinkHeader ==
    /\ pc = "shrink"
    /\ cur = 1
    /\ header_loop_cond(text_w, font_size)
    /\ font_size' = font_size - 1
    /\ steps' = steps + 1
    /\ UNCHANGED <<pc, cur, row_top, text_w, last_text, rows_done, fit, nonpdf>>

\* lines 210-212: the loop has ended, the company is drawn
DrawHeaderText ==
    /\ pc = "shrink"
    /\ cur = 1
    /\ ~header_loop_cond(text_w, font_size)
    /\ last_text' = [row |-> cur, size |-> font_size, glyphs |-> text_w]
    /\ row_top' = row_top - Pt(row_heights[1])
    /\ cur' = 2
    /\ pc' = "row"
    /\ UNCHANGED <<font_size, text_w, steps, rows_done, fit, nonpdf>>

\* draw_row, lines 219-235: the two boxes and the labels of a value row
DrawRow ==
    /\ pc = "row"
    /\ cur \in {2, 3, 5, 6, 7}
    /\ LET height == Pt(row_heights[cur])
       IN  rows_done' = Append(rows_done,
              [row |-> cur,
               rects |-> <<Rect(label_x, row_top - height, col1_w, height),
                           Rect(label_x + col1_w, row_top - height, col2_w, height)>>])
    /\ font_size' = main_label_font_size
    /\ text_w' \in GlyphWidths
    /\ steps' = 0
    /\ pc' = "shrink"
    /\ last_text' = NoText
    /\ UNCHANGED <<cur, row_top, fit, nonpdf>>

\* lines 236-238: one iteration of a shrinkable value's loop
ShrinkValue ==
    /\ pc = "shrink"
    /\ cur \in {2, 3, 5, 6, 7}
    /\ Shrinkable(cur)
    /\ value_loop_cond(text_w, font_size)
    /\ font_size' = font_size - 1
    /\ steps' = steps + 1
    /\ UNCHANGED <<pc, cur, row_top, text_w, last_text, rows_done, fit, nonpdf>>

\* lines 239-241 and the caller's row_top -= rh; after the Box No. row the
\* caller subtracts rh a second time (line 343)
DrawValue ==
    /\ pc = "shrink"
    /\ cur \in {2, 3, 5, 6, 7}
    /\ ~(Shrinkable(cur) /\ value_loop_cond(text_w, font_size))
    /\ last_text' = [row |-> cur, size |-> font_size, glyphs |-> text_w]
    /\ row_top' = IF cur = 7
                  THEN row_top - Pt(row_heights[cur]) - Pt(row_heights[cur])
                  ELSE row_top - Pt(row_heights[cur])
    /\ cur' = cur + 1
    /\ pc' = "row"
    /\ UNCHANGED <<font_size, text_w, steps, rows_done, fit, nonpdf>>

\* lines 260-321: the barcode row, fitted and drawn with its caption
DrawBarcodeRow ==
    /\ pc = "row"
    /\ cur = 4
    /\ rows_done' = Append(rows_done,
          [row |-> cur,
           rects |-> <<Rect(label_x, row_top - Pt(row_heights[4]), label_w, Pt(row_heights[4]))>>])
    /\ \E symbols \in SymbolCounts : fit' = barcode_fit(Modules(symbols))
    /\ row_top' = row_top - Pt(row_heights[4])
    /\ cur' = 5
    /\ last_text' = NoText
    /\ UNCHANGED <<pc, font_size, text_w, steps, nonpdf>>

\* line 345
Save ==
    /\ pc = "row"
    /\ cur = 8
    /\ pc' = "saved"
    /\ UNCHANGED <<pdfvars, nonpdf>>

----------------------------------------------------------------------------
(* run_csv, src/pyStickerCreator.py 351-399                                 *)

\* a slip: only empty rows skipped, rows of blank cells kept
is_skipped_empty_only(row) == row = <<>>

\* line 372
is_skipped(row) ==
    \/ row = <<>>
    \/ \A i \in DOMAIN row : row[i] = NoneV \/ Strip(row[i]) = <<>>

FieldDefault ==
    [company |-> T_COMPANY_NAME, article |-> <<>>, quantity |-> <<"0">>,
     batch |-> <<"1">>, order |-> <<>>, carton |-> <<"1">>]

\* lines 381-386
read_fields(row, cm) ==
    [f \in FieldNames |-> get_cell(row, cm[f], FieldDefault[f])]

\* a slip: the clamp of lines 395-396 forgotten
carton_total_unclamped(karton_raw) ==
    LET karton_digits == sanitize_numeric_keep_zeros(karton_raw, <<"1">>)
    IN  IF karton_digits # <<>> /\ karton_digits # NoneV THEN IntOf(karton_digits) ELSE 1

\* lines 389-396; int() of a digit string raises no ValueError
carton_total(karton_raw) ==
    LET karton_digits == sanitize_numeric_keep_zeros(karton_raw, <<"1">>)
        k_parsed == IF karton_digits # <<>> /\ karton_digits # NoneV
                    THEN IntOf(karton_digits) ELSE 1
    IN  IF k_parsed < 1 THEN 1 ELSE k_parsed

NoColmap == [f \in FieldNames |-> NoIdx]
NoFields == [f \in FieldNames |-> <<>>]

\* the variables of run_csv before the file is opened
CsvIdle ==
    /\ remaining = 0
    /\ header = NoneV
    /\ colmap = NoColmap
    /\ rowsread = <<>>
    /\ fields = NoFields
    /\ k = 0
    /\ k_total = 0
    /\ labels = <<>>
    /\ files = <<>>

\* lines 370-373: the reader yields a row that is skipped
SkipRow(rows) ==
    /\ pc = "read"
    /\ remaining > 0
    /\ \E row \in rows :
        /\ is_skipped(row)
        /\ rowsread' = Append(rowsread, row)
    /\ remaining' = remaining - 1
    /\ UNCHANGED <<pc, header, colmap, fields, k, k_total, labels, files, noncsv>>

\* lines 376-379: the first row that is not skipped
HeaderRow(rows) ==
    /\ pc = "read"
    /\ remaining > 0
    /\ header = NoneV
    /\ \E row \in rows :
        /\ ~is_skipped(row)
        /\ rowsread' = Append(rowsread, row)
        /\ header' = row
        /\ colmap' = build_column_map(row)
    /\ remaining' = remaining - 1
    /\ UNCHANGED <<pc, fields, k, k_total, labels, files, noncsv>>

\* lines 381-398: a data row is read and its carton count computed
DataRow(rows) ==
    /\ pc = "read"
    /\ remaining > 0
    /\ header # NoneV
    /\ \E row \in rows :
        /\ ~is_skipped(row)
        /\ rowsread' = Append(rowsread, row)
        /\ fields' = read_fields(row, colmap)
        /\ k_total' = carton_total(get_cell(row, colmap.carton, FieldDefault.carton))
    /\ k' = 1
    /\ pc' = "expand"
    /\ remaining' = remaining - 1
    /\ UNCHANGED <<header, colmap, labels, files, noncsv>>

\* lines 398-399: one iteration of the carton loop; generate_pdf saves the
\* page under pdf_file, replacing what was there (canvas.save, line 345)
GeneratePdf ==
    /\ pc = "expand"
    /\ k <= k_total
    /\ LET page == generate_pdf(fields.company, fields.article, fields.quantity,
                                fields.batch, fields.order, StrOf(k))
       IN  /\ labels' = Append(labels,
                  [src |-> Len(rowsread), raw |-> fields, carton_no |-> StrOf(k),
                   page |-> page])
           /\ files' = [f \in DOMAIN files \cup {page.pdf_file} |->
                           IF f = page.pdf_file THEN page ELSE files[f]]
    /\ k' = k + 1
    /\ UNCHANGED <<pc, remaining, header, colmap, rowsread, fields, k_total, noncsv>>

\* line 398: range(1, k_total + 1) is exhausted
EndRow ==
    /\ pc = "expand"
    /\ k > k_total
    /\ pc' = "read"
    /\ UNCHANGED <<csvvars, noncsv>>

\* line 370: the reader is exhausted
EndOfFile ==
    /\ pc = "read"
    /\ remaining = 0
    /\ pc' = "done"
    /\ UNCHANGED <<csvvars, noncsv>>

----------------------------------------------------------------------------
(* Spec: run_csv on a file of MaxRows rows drawn from CsvRows               *)

MaxRows == 4

\* an empty line
RowEmpty ==
    <<>>

\* cells of whitespace only
RowBlank ==
    <<<<" ">>,
      <<>>,
      <<"\t">>>>

\* the header of the end-to-end example
RowHeaderFull ==
    <<<<"C", "o", "m", "p", "a", "n", "y">>,
      <<"A", "r", "t", "i", "k", "e", "l">>,
      <<"Q", "u", "a", "n", "t", "i", "t", "y">>,
      <<"C", "h", "a", "r", "g", "e", "n">>,
      <<"B", "e", "s", "t", "e", "l", "l">>,
      <<"K", "a", "r", "t", "o", "n">>>>

\* a header with carton and article only
RowHeaderShort ==
    <<<<"K", "a", "r", "t", "o", "n", "-", "N", "r", ".">>,
      <<"S", "K", "U">>>>

\* the data row of the end-to-end example
RowAcme2 ==
    <<<<"A", "c", "m", "e">>,
      <<"S", "K", "U", "1", "2", "3">>,
      <<"0", "4", "5">>,
      <<"7">>,
      <<"P", "O", "-", "9">>,
      <<"2">>>>

\* same company, order, batch: other article and quantity
RowAcme3 ==
    <<<<"A", "c", "m", "e">>,
      <<"S", "K", "U", "9", "9", "9">>,
      <<"0", "0", "0">>,
      <<"7">>,
      <<"P", "O", "-", "9">>,
      <<"3">>>>

\* no quantity digits, empty batch and order, carton without digits
RowDefaults ==
    <<<<" ", "A", "c", "m", "e", " ">>,
      <<"A", "|", "B">>,
      <<"x">>,
      <<>>,
      <<>>,
      <<"a", "b", "c">>>>

\* a row shorter than the header
RowShort ==
    <<<<"B", "e", "t", "a">>>>

\* characters the filename replaces, carton 0
RowUnsafe ==
    <<<<"A", "/", "B", ":", " ", "C">>,
      <<"S", "K", "U", " ", "1">>,
      <<"1", " ", "2">>,
      <<"b", " ", " ", "1">>,
      <<"P", "O", "?", "9">>,
      <<"0">>>>

\* company over 40 and batch over 20 characters
RowLong ==
    <<<<"V", "e", "r", "y", " ", "L", "o", "n", "g", " ", "C", "o", "m", "p", "a", "n", "y", " ", "N", "a", "m", "e", " ", "I", "n", "c", "o", "r", "p", "o", "r", "a", "t", "e", "d", " ", "L", "i", "m", "i", "t", "e", "d", " ", "X">>,
      <<"S">>,
      <<"5">>,
      <<"B", "A", "T", "C", "H", "-", "2", "0", "2", "4", "-", "0", "0", "0", "0", "0", "0", "0", "0", "0", "1", "-", "A">>,
      <<"P", "O", "-", "9">>,
      <<"1">>>>

CsvRows ==
    {RowEmpty, RowBlank, RowHeaderFull, RowHeaderShort, RowAcme2, RowAcme3,
     RowDefaults, RowShort, RowUnsafe, RowLong}

Init ==
    /\ pc = "read"
    /\ remaining = MaxRows
    /\ header = NoneV
    /\ colmap = NoColmap
    /\ rowsread = <<>>
    /\ fields = NoFields
    /\ k = 0
    /\ k_total = 0
    /\ labels = <<>>
    /\ files = <<>>
    /\ PdfIdle
    /\ s_in = NoneV
    /\ s_out = NoneV

Next ==
    \/ SkipRow(CsvRows)
    \/ HeaderRow(CsvRows)
    \/ DataRow(CsvRows)
    \/ GeneratePdf
    \/ EndRow
    \/ EndOfFile

Spec == Init /\ [][Next]_vars

----------------------------------------------------------------------------
(* What the rows read so far say, independently of run_csv's own variables  *)

Min(S) == CHOOSE x \in S : \A y \in S : x <= y
Max(S) == CHOOSE x \in S : \A y \in S : x >= y

\* a row with no cell, or whose cells hold nothing but whitespace
Blank(row) == \A i \in DOMAIN row : \A j \in DOMAIN row[i] : row[i][j] \in Whitespace

NonBlankIdx == {i \in DOMAIN rowsread : ~Blank(rowsread[i])}

\* the positions in rowsread of the data rows
DataIdx == IF NonBlankIdx = {} THEN {} ELSE NonBlankIdx \ {Min(NonBlankIdx)}

\* row i has been processed to its end
Completed(i) == i < Len(rowsread) \/ pc \in {"read", "done"}

\* the positions in labels of the calls made for row i, ascending
CallsOf(i) == {n \in DOMAIN labels : labels[n].src = i}

\* the digit characters of a value, in order (no digits for None)
DigitsOf(v) == IF v = NoneV THEN <<>> ELSE SelectSeq(v, IsDigit)

AllZero(d) == \A i \in 1..Len(d) : d[i] = "0"

RECURSIVE DecimalValue(_)
\* the integer a digit string denotes
DecimalValue(d) ==
    IF d = <<>> THEN 0
    ELSE 10 * DecimalValue(SubSeq(d, 1, Len(d) - 1)) + DigitValue(d[Len(d)])

\* the carton field of a data row is absent
CartonAbsent(row) == colmap.carton = NoIdx \/ colmap.carton[1] >= Len(row)

\* cartonTotal of a data row
CartonTotalOf(row) ==
    IF CartonAbsent(row) THEN 1
    ELSE LET d == DigitsOf(row[colmap.carton[1] + 1])
         IN  IF d = <<>> \/ DecimalValue(d) < 1 THEN 1 ELSE DecimalValue(d)

\* C1: for every data row generate_pdf is called exactly cartonTotal times,
\* with cartonIndex 1, 2, ..., cartonTotal in ascending order, one row after
\* the other, and with the same other arguments in every call of the row;
\* cartonTotal is the value of the carton field's digits, and 1 when the
\* field has no digits, is absent or is below 1.
C1_CartonExpansion ==
    /\ \A n \in DOMAIN labels : \A m \in DOMAIN labels :
            n < m => labels[n].src <= labels[m].src
    /\ \A i \in DataIdx :
        LET total == CartonTotalOf(rowsread[i])
            calls == CallsOf(i)
            first == Min(calls)
        IN  /\ total >= 1
            /\ Completed(i) => Cardinality(calls) = total
            /\ ~Completed(i) => Cardinality(calls) = k - 1 /\ k - 1 <= total
            /\ \A n \in calls :
                /\ labels[n].carton_no = StrOf(n - first + 1)
                /\ labels[n].page.box = labels[n].carton_no
                /\ n - first + 1 >= 1
                /\ n - first + 1 <= total
                /\ labels[n].raw = labels[first].raw

\* carton "3" gives boxes 1, 2, 3; carton "abc" and carton "0" one box each
C1_Witness ==
    /\ pc = "read"
    /\ rowsread = <<RowHeaderFull, RowAcme3, RowDefaults, RowUnsafe>>
    /\ Len(labels) = 5
    /\ [n \in 1..5 |-> labels[n].carton_no] = <<<<"1">>, <<"2">>, <<"3">>, <<"1">>, <<"1">>>>

\* C2: blank rows are skipped wherever they occur, yield no label and are
\* never the header; the first row that is not blank is the header and
\* yields no label; every later row that is not blank is a data row and
\* yields at least one label.
C2_RowClassification ==
    /\ header = IF NonBlankIdx = {} THEN NoneV ELSE rowsread[Min(NonBlankIdx)]
    /\ \A n \in DOMAIN labels : labels[n].src \in DataIdx
    /\ \A i \in DataIdx : Completed(i) => CallsOf(i) # {}
    /\ pc = "expand" => Len(rowsread) \in DataIdx

\* blank rows before and right after the header
C2_Witness ==
    /\ pc = "read"
    /\ rowsread = <<RowBlank, RowHeaderFull, RowEmpty, RowAcme2>>
    /\ header = RowHeaderFull
    /\ Len(labels) = 2
    /\ \A n \in DOMAIN labels : labels[n].src = 4

\* the digit string without its leading zeros, "0" when nothing is left
WithoutLeadingZeros(d) ==
    IF AllZero(d) THEN <<"0">>
    ELSE SubSeq(d, Min({i \in DOMAIN d : d[i] # "0"}), Len(d))

\* the text of a raw cell, trimmed; dflt when nothing is left
TrimmedOr(raw, dflt) ==
    LET a == Min({i \in DOMAIN raw : raw[i] \notin Whitespace} \cup {Len(raw) + 1})
        b == Max({i \in DOMAIN raw : raw[i] \notin Whitespace} \cup {0})
    IN  IF a > b THEN dflt ELSE SubSeq(raw, a, b)

\* C3: the barcode payload of every label is article|quantityDigits|batch|
\* cartonIndex, quantityDigits being the digits of the raw quantity with
\* their leading zeros ("0" without digits); the Quantity row shows those
\* digits without leading zeros; the value encoded in the barcode and the
\* caption under it are the same string.
C3_BarcodePayload ==
    \A n \in DOMAIN labels :
        LET l == labels[n]
            d == DigitsOf(l.raw.quantity)
            quantityDigits == IF d = <<>> THEN <<"0">> ELSE d
        IN  /\ l.page.encoded =
                  TrimmedOr(l.raw.article, <<>>) \o <<"|">> \o quantityDigits \o <<"|">>
                      \o TrimmedOr(l.raw.batch, <<"1">>) \o <<"|">> \o l.carton_no
            /\ l.page.caption = l.page.encoded
            /\ l.page.quantity_display = WithoutLeadingZeros(quantityDigits)
            /\ l.page.artikel_display = TrimmedOr(l.raw.article, <<>>)
            /\ l.page.batch_display = TrimmedOr(l.raw.batch, <<"1">>)

\* the end-to-end example: SKU123|045|7|1 and SKU123|045|7|2, quantity 45
C3_Witness ==
    /\ pc = "read"
    /\ rowsread = <<RowHeaderFull, RowAcme2>>
    /\ Len(labels) = 2
    /\ labels[1].page.encoded =
          <<"S", "K", "U", "1", "2", "3", "|", "0", "4", "5", "|", "7", "|", "1">>
    /\ labels[2].page.encoded =
          <<"S", "K", "U", "1", "2", "3", "|", "0", "4", "5", "|", "7", "|", "2">>
    /\ labels[1].page.caption = labels[1].page.encoded
    /\ labels[1].page.quantity_display = <<"4", "5">>

\* a file-name component: unsafe characters replaced, whitespace collapsed,
\* trimmed, dflt when empty, cut to max characters
Component(text, dflt, max) ==
    LET safe == safe_filename_component(text, dflt)
    IN  SubSeq(safe, 1, IF Len(safe) < max THEN Len(safe) ELSE max)

\* C10: a label's file name is "{company} - Order {order}, Batch {batch},
\* Box {cartonIndex}.pdf" of the sanitized, truncated company (40), order
\* (40, NoOrderNo when empty) and batch (20) and of the carton index alone;
\* the labels of one row have distinct names; a label replaces an earlier
\* one of the same name, so each file holds the last label saved under it.
C10_OutputFiles ==
    /\ \A n \in DOMAIN labels :
        LET p == labels[n].page
        IN  p.pdf_file =
                Component(p.company, T_Company, MaxCompanyLen) \o T_Order
                  \o Component(p.order_display, T_NoOrderNo, MaxOrderLen) \o T_Batch
                  \o Component(p.batch_display, T_BatchDefault, MaxBatchLen) \o T_Box
                  \o labels[n].carton_no \o T_Pdf
    /\ \A n \in DOMAIN labels : \A m \in DOMAIN labels :
        /\ (n # m /\ labels[n].src = labels[m].src)
              => labels[n].page.pdf_file # labels[m].page.pdf_file
        /\ ( /\ labels[n].page.company = labels[m].page.company
             /\ labels[n].page.order_display = labels[m].page.order_display
             /\ labels[n].page.batch_display = labels[m].page.batch_display
             /\ labels[n].carton_no = labels[m].carton_no )
              => labels[n].page.pdf_file = labels[m].page.pdf_file
    /\ DOMAIN files = {labels[n].page.pdf_file : n \in DOMAIN labels}
    /\ \A f \in DOMAIN files :
          files[f] = labels[Max({n \in DOMAIN labels : labels[n].page.pdf_file = f})].page

\* two rows of the same company, order and batch: boxes 1 and 2 of the
\* first row are replaced by those of the second, which adds box 3
C10_Witness ==
    /\ pc = "read"
    /\ rowsread = <<RowHeaderFull, RowAcme2, RowAcme3>>
    /\ Len(labels) = 5
    /\ Cardinality(DOMAIN files) = 3
    /\ labels[1].page.pdf_file = labels[3].page.pdf_file
    /\ files[labels[1].page.pdf_file] = labels[3].page
    /\ labels[1].page # labels[3].page
    /\ labels[1].page.pdf_file =
          <<"A", "c", "m", "e", " ", "-", " ", "O", "r", "d", "e", "r", " ",
            "P", "O", "-", "9", ",", " ", "B", "a", "t", "c", "h", " ", "7",
            ",", " ", "B", "o", "x", " ", "1", ".", "p", "d", "f">>

----------------------------------------------------------------------------
(* SpecCols: run_csv on a header of up to MaxCols cells drawn from          *)
(* HeaderCells, followed by rows drawn from ColDataRows                     *)

MaxCols == 3
MaxColRows == 2

CellStueckzahl == <<"S", "t", "U+00FC", "c", "k", "z", "a", "h", "l">>
CellQTY == <<"Q", "T", "Y">>
CellKarton == <<"K", "a", "r", "t", "o", "n">>
CellCarton == <<"C", "a", "r", "t", "o", "n">>
CellEmpty == <<>>
CellOrderQty == <<"O", "r", "d", "e", "r", " ", "Q", "t", "y">>

HeaderCells == {CellStueckzahl, CellQTY, CellKarton, CellCarton, CellEmpty, CellOrderQty}

ColHeaders == TextsUpTo(HeaderCells, MaxCols)

ColDataRows ==
    {<<<<"2">>>>,
     <<<<"a">>, <<"3">>, <<"x", "1">>>>,
     <<<<"1">>, <<>>, <<"P", "O">>, <<"2">>>>}

InitCols ==
    /\ pc = "read"
    /\ remaining = MaxColRows
    /\ header = NoneV
    /\ colmap = NoColmap
    /\ rowsread = <<>>
    /\ fields = NoFields
    /\ k = 0
    /\ k_total = 0
    /\ labels = <<>>
    /\ files = <<>>
    /\ PdfIdle
    /\ s_in = NoneV
    /\ s_out = NoneV

\* what the reader can yield next
ColInput == IF header = NoneV THEN ColHeaders ELSE ColDataRows

NextCols ==
    \/ SkipRow(ColInput)
    \/ HeaderRow(ColInput)
    \/ DataRow(ColInput)
    \/ GeneratePdf
    \/ EndRow
    \/ EndOfFile

SpecCols == InitCols /\ [][NextCols]_vars

\* the 0-based columns whose normalized header text matches a pattern of
\* field f; normal[i] is the normalized text of header cell i
MatchingColumns(f, normal) ==
    {i \in 0..(Len(normal) - 1) :
        \E n \in DOMAIN FieldPatterns[f] : re_search(FieldPatterns[f][n], normal[i + 1])}

QuantityAliases == {CellStueckzahl, CellQTY, CellOrderQty}
CartonAliases == {CellKarton, CellCarton}

\* the documented defaults of the six fields
DocumentedDefault ==
    [company |-> <<"C", "O", "M", "P", "A", "N", "Y", "_", "N", "A", "M", "E">>,
     article |-> <<>>, quantity |-> <<"0">>, batch |-> <<"1">>,
     order |-> <<>>, carton |-> <<"1">>]

\* the value field f takes in a data row
FieldOf(row, f) ==
    IF colmap[f] = NoIdx \/ colmap[f][1] >= Len(row)
    THEN DocumentedDefault[f]
    ELSE row[colmap[f][1] + 1]

\* C8: build_column_map resolves each field to the lowest column whose
\* normalized header text matches a pattern of the field, whatever the
\* accents and case, and to absent when none matches; a data row's field
\* whose column is absent or past the row's end reads the field's default;
\* the map is that of the header row for as long as rows are processed.
C8_ColumnResolution ==
    header # NoneV =>
        /\ header = rowsread[Min(NonBlankIdx)]
        /\ LET normal == [i \in DOMAIN header |-> normalize_for_match(header[i])]
           IN  \A f \in FieldNames :
                  LET cols == MatchingColumns(f, normal)
                  IN  colmap[f] = IF cols = {} THEN NoIdx ELSE <<Min(cols)>>
        /\ \A i \in DOMAIN header :
              /\ header[i] \in QuantityAliases
                    => colmap.quantity # NoIdx /\ colmap.quantity[1] <= i - 1
              /\ header[i] \in CartonAliases
                    => colmap.carton # NoIdx /\ colmap.carton[1] <= i - 1
        /\ pc = "expand" =>
              \A f \in FieldNames : fields[f] = FieldOf(rowsread[Len(rowsread)], f)
        /\ \A n \in DOMAIN labels : \A f \in FieldNames :
              labels[n].raw[f] = FieldOf(rowsread[labels[n].src], f)

\* quantity under an accented alias in column 1, carton in column 2, and a
\* data row too short for the carton column
C8_Witness ==
    /\ pc = "read"
    /\ rowsread = <<<<CellOrderQty, CellStueckzahl, CellCarton>>, <<<<"2">>>>>>
    /\ colmap.order = <<0>>
    /\ colmap.quantity = <<0>>
    /\ colmap.carton = <<2>>
    /\ colmap.article = NoIdx
    /\ Len(labels) = 1
    /\ labels[1].raw.quantity = <<"2">>
    /\ labels[1].raw.carton = <<"1">>
    /\ labels[1].raw.company = T_COMPANY_NAME

----------------------------------------------------------------------------
(* SpecPdf: generate_pdf draws one page                                     *)

InitPdf ==
    /\ pc = "row"
    /\ cur = 1
    /\ row_top = label_y + label_h
    /\ font_size = 0
    /\ text_w = 0
    /\ steps = 0
    /\ last_text = NoText
    /\ rows_done = <<>>
    /\ fit = NoFit
    /\ CsvIdle
    /\ s_in = NoneV
    /\ s_out = NoneV

NextPdf ==
    \/ DrawHeader
    \/ ShrinkHeader
    \/ DrawHeaderText
    \/ DrawRow
    \/ ShrinkValue
    \/ DrawValue
    \/ DrawBarcodeRow
    \/ Save

SpecPdf == InitPdf /\ [][NextPdf]_vars

\* a <= b for fractions a >= 0, b > 0
RLe(a, b) == ~RGt(a, b)

\* the fitter has run for this page
Fitted == cur > 4

\* C4: the fitted barcode never exceeds the target box: after the width
\* clamp and then the height clamp, final_width <= size_width_target and
\* final_height <= size_height_target, and the barcode rendered with the
\* resulting bar width and bar height fits the box unless the bar width
\* was raised to the floor of 0.2.
C4_FitterBound ==
    Fitted =>
        /\ RLe(fit.final_width, size_width_target)
        /\ RLe(fit.final_height, size_height_target)
        /\ ~fit.floored =>
              /\ RLe(fit.barcode_w, size_width_target)
              /\ RLe(fit.barcode_h, size_height_target)

\* a payload whose candidate is clamped in width and then in height, and
\* whose bar width stays above the floor
C4_Witness ==
    /\ Fitted
    /\ ~fit.floored
    /\ RGt(fit.size_width_init, <<100, 1>>)
    /\ fit.final_height = size_height_target
    /\ RLt(fit.final_width, size_width_target)

\* a long payload: the floor applies and the rendered barcode is wider
\* than the box
C4_FloorOverflow ==
    /\ Fitted
    /\ fit.floored
    /\ RGt(fit.barcode_w, size_width_target)

\* C5: whenever the floor is not applied, final_width / final_height
\* equals size_width_init / size_height_init, the aspect ratio of the
\* baseline render.
C5_AspectRatio ==
    (Fitted /\ ~fit.floored) =>
        RDiv(fit.final_width, fit.final_height)
            = RDiv(fit.size_width_init, fit.size_height_init)

\* start size, floor and available width of the row's shrink loop
StartSize(row) == IF row = 1 THEN 42 ELSE 36
FloorSize(row) == IF row = 1 THEN 12 ELSE 8
Available(row) == IF row = 1 THEN label_w - Pt(24) ELSE col2_w - Pt(20)
Fits(glyphs, size, row) == stringWidth(glyphs, size) <= Available(row)
Shrinks(row) == row \in {1, 2, 5, 6}

\* C6: a shrink loop decrements the size by one at most startSize - floor
\* times (header 42 and 12, value cells 36 and 8); the size stays within
\* [floor, startSize]; the text is drawn at the largest size that fits, or
\* at the floor when none does, and is not reduced when it fits at
\* startSize; the Quantity and Box No. rows are drawn at 36.
C6_ShrinkToFit ==
    /\ pc = "shrink" =>
        /\ font_size = StartSize(cur) - steps
        /\ steps <= StartSize(cur) - FloorSize(cur)
        /\ font_size >= FloorSize(cur)
        /\ ~Shrinks(cur) => steps = 0
    /\ last_text # NoText =>
        LET row == last_text.row
            size == last_text.size
        IN  /\ size >= FloorSize(row)
            /\ size <= StartSize(row)
            /\ Shrinks(row) =>
                /\ Fits(last_text.glyphs, size, row) \/ size = FloorSize(row)
                /\ \A bigger \in (size + 1)..StartSize(row) :
                      ~Fits(last_text.glyphs, bigger, row)
                /\ Fits(last_text.glyphs, StartSize(row), row) => size = StartSize(row)
            /\ ~Shrinks(row) => size = 36

\* a company too wide even at the floor: 30 decrements, drawn at 12
C6_Witness ==
    /\ last_text # NoText
    /\ last_text.row = 1
    /\ last_text.size = 12
    /\ steps = 30
    /\ ~Fits(last_text.glyphs, 12, 1)

\* the row heights of the layout, in points
ClaimedHeights == <<90, 70, 70, 150, 70, 70, 70>>

RECURSIVE SumFirst(_, _)
\* the sum of the first n elements
SumFirst(seq, n) == IF n = 0 THEN 0 ELSE SumFirst(seq, n - 1) + seq[n]

FrameTop == label_y + label_h

RowTop(j) == rows_done[j].rects[1].y + rows_done[j].rects[1].h
RowBottom(j) == rows_done[j].rects[1].y

\* the rows drawn so far are rows 1, 2, ... in this order, each once, each
\* of its height, each starting where the one before ends, the first at
\* the frame's top, and each within the frame from edge to edge
RowsStacked ==
    /\ Len(rows_done) <= 7
    /\ Len(rows_done) = IF pc = "shrink" THEN cur ELSE cur - 1
    /\ pc = "saved" => Len(rows_done) = 7
    /\ \A j \in DOMAIN rows_done :
        LET rects == rows_done[j].rects
        IN  /\ rows_done[j].row = j
            /\ RowTop(j) = IF j = 1 THEN FrameTop ELSE RowBottom(j - 1)
            /\ RowTop(j) - RowBottom(j) = Pt(ClaimedHeights[j])
            /\ RowBottom(j) >= label_y
            /\ RowTop(j) <= FrameTop
            /\ rects[1].x = label_x
            /\ rects[Len(rects)].x + rects[Len(rects)].w = label_x + label_w
            /\ \A n \in DOMAIN rects :
                /\ rects[n].y = RowBottom(j)
                /\ rects[n].h = Pt(ClaimedHeights[j])
                /\ n > 1 => rects[n].x = rects[n - 1].x + rects[n - 1].w

\* the rows whose drawing is complete
RowsComplete == cur - 1

\* C9 as stated: the seven rows are drawn once each in the fixed order,
\* stacked from the frame's top inside the frame, and after each row the
\* cursor is lowered by exactly that row's height.
C9_LayoutPipeline ==
    /\ RowsStacked
    /\ row_top = FrameTop - Pt(SumFirst(ClaimedHeights, RowsComplete))

\* C9 as amended: the same, except that after the Box No. row the cursor
\* is lowered by that row's height twice; it ends 660 points below the
\* frame's top and never goes below the frame's bottom.
C9_LayoutPipelineAmended ==
    /\ RowsStacked
    /\ RowsComplete < 7 =>
          row_top = FrameTop - Pt(SumFirst(ClaimedHeights, RowsComplete))
    /\ RowsComplete = 7 =>
          row_top = FrameTop - Pt(SumFirst(ClaimedHeights, 7)) - Pt(ClaimedHeights[7])
    /\ row_top >= label_y

\* the page is saved, seven rows drawn, the cursor 660 points down
C9_Witness ==
    /\ pc = "saved"
    /\ Len(rows_done) = 7
    /\ row_top = FrameTop - Pt(660)
    /\ RowBottom(7) = FrameTop - Pt(590)

----------------------------------------------------------------------------
(* Bounded text, the inputs of the pure-function specification              *)

MaxLen == 3

StripAlphabet == {"0", "7", "a", " "}

StripInputs == TextsUpTo(StripAlphabet, MaxLen) \cup {NoneV}

----------------------------------------------------------------------------
(* SpecStrip: strip_leading_zeros_keep_zero applied to one bounded input    *)

InitStrip ==
    /\ pc = "strip_call"
    /\ s_in \in StripInputs
    /\ s_out = NoneV
    /\ CsvIdle
    /\ PdfIdle

CallStrip ==
    /\ pc = "strip_call"
    /\ s_out' = strip_leading_zeros_keep_zero(s_in)
    /\ pc' = "strip_done"
    /\ UNCHANGED <<s_in, csvvars, pdfvars>>

NextStrip == CallStrip

SpecStrip == InitStrip /\ [][NextStrip]_vars

\* C7: strip_leading_zeros_keep_zero never returns the empty string; it
\* returns "0" exactly when the input's digits are all zeros or absent;
\* otherwise it returns the digit string without its leading zeros, which
\* then begins with a non-zero digit.
C7_StripKeepZero ==
    pc = "strip_done" =>
        LET d == DigitsOf(s_in)
        IN  /\ s_out # <<>>
            /\ s_out # NoneV
            /\ (s_out = <<"0">>) <=> AllZero(d)
            /\ ~AllZero(d) =>
                 /\ Head(s_out) \in Digits \ {"0"}
                 /\ \E z \in 0..Len(d) :
                      /\ \A i \in 1..z : d[i] = "0"
                      /\ s_out = SubSeq(d, z + 1, Len(d))

\* an input with non-digits and leading zeros: " 07" gives "7"
C7_Witness ==
    /\ pc = "strip_done"
    /\ s_in = <<" ", "0", "7">>
    /\ s_out = <<"7">>

====
